---- MODULE Spec2Model ----
(***************************************************************************)
(* A model of the nonstring package: unique, unwrap, wrap, Wrapper,        *)
(* isseparable (src/src/nonstring/__init__.py) and the order-preserving    *)
(* merge (specified in spec.md, sections 4.1 to 4.5).                      *)
(*                                                                         *)
(* The package is a collection of pure functions.  The state machine is a  *)
(* caller: from "idle" it calls one function on one input drawn from a     *)
(* bounded universe of Python values, the state then holds the call and    *)
(* what it returned or raised, and Return brings the caller back to idle.  *)
(***************************************************************************)
EXTENDS Integers, Sequences, FiniteSets, TLC

VARIABLES op, args, kw, ret

vars == <<op, args, kw, ret>>

(***************************************************************************)
(* Bounds of the model.                                                    *)
(***************************************************************************)
MaxLen == 3        \* longest list, tuple or argument list
MaxStrLen == 2     \* longest str or bytes
MaxDepth == 2      \* deepest nesting of one-element lists and tuples

(***************************************************************************)
(* Python values.  Every value is a record [kind, val] with val a          *)
(* sequence: the characters of a str, the integers of a bytes, the items   *)
(* of a list or tuple, the number of an int, nothing for None.  Two values *)
(* are equal in Python exactly when the records are equal (a list never    *)
(* equals a tuple, a str never equals a bytes).                            *)
(***************************************************************************)
None == [kind |-> "NoneType", val |-> <<>>]
PyInt(n) == [kind |-> "int", val |-> <<n>>]
PyStr(s) == [kind |-> "str", val |-> s]
PyBytes(s) == [kind |-> "bytes", val |-> s]
PyList(s) == [kind |-> "list", val |-> s]
PyTuple(s) == [kind |-> "tuple", val |-> s]

SeqsUpTo(S, n) == UNION {[1..k -> S] : k \in 0..n}

Chars == {"a", "b"}
Octets == {1, 2}
Ints == {PyInt(1), PyInt(2), PyInt(3)}
Strs == {PyStr(s) : s \in SeqsUpTo(Chars, MaxStrLen)}
Bytess == {PyBytes(s) : s \in SeqsUpTo(Octets, MaxStrLen)}
Scalars == {None} \cup Ints \cup Strs \cup Bytess

\* The items of the lists and tuples the caller builds.
Elems == {PyInt(1), PyInt(2), PyInt(3), PyStr(<<"a">>)}
Flat == {PyList(s) : s \in SeqsUpTo(Elems, MaxLen)}
          \cup {PyTuple(s) : s \in SeqsUpTo(Elems \ {PyInt(3)}, MaxLen)}

\* One-element lists and tuples nested d deep around the values of S.
RECURSIVE Nest(_, _)
Nest(S, d) ==
    IF d = 0 THEN S
    ELSE LET inner == Nest(S, d - 1)
         IN  inner \cup {PyList(<<v>>) : v \in inner} \cup {PyTuple(<<v>>) : v \in inner}

Values == Nest(Scalars \cup Flat \cup {PyList(<<None, None>>)}, MaxDepth)

(***************************************************************************)
(* iter(x): which values are iterable, and what iterating them yields.     *)
(***************************************************************************)
IsIterable(x) == x.kind \in {"str", "bytes", "list", "tuple"}

ItemsOf(x) ==
    CASE x.kind = "str" -> [i \in 1..Len(x.val) |-> PyStr(<<x.val[i]>>)]
      [] x.kind = "bytes" -> [i \in 1..Len(x.val) |-> PyInt(x.val[i])]
      [] OTHER -> x.val

Contains(s, x) == \E i \in 1..Len(s) : s[i] = x

(***************************************************************************)
(* What a call returns or raises.                                          *)
(***************************************************************************)
Returns(v) == [raised |-> "", value |-> v]
Raises(e) == [raised |-> e, value |-> None]

(***************************************************************************)
(* wrap(arg): wrap arg in a list, if necessary.                            *)
(***************************************************************************)
\* wrap without its isinstance(arg, str) test: a str is iterated.
wrap_SplitsStr(arg) ==
    IF arg = None THEN PyList(<<>>)
    ELSE IF ~IsIterable(arg) THEN PyList(<<arg>>)
    ELSE PyList(ItemsOf(arg))

\* wrap returning [arg] where it should return list(arg).
wrap_KeepsIterable(arg) ==
    IF arg = None THEN PyList(<<>>)
    ELSE PyList(<<arg>>)

\* wrap without its None test: None, not iterable, becomes [None].
wrap_KeepsNone(arg) ==
    IF arg.kind = "str" THEN PyList(<<arg>>)
    ELSE IF ~IsIterable(arg) THEN PyList(<<arg>>)
    ELSE PyList(ItemsOf(arg))

wrap(arg) ==
    IF arg = None THEN PyList(<<>>)
    ELSE IF arg.kind = "str" THEN PyList(<<arg>>)
    ELSE IF ~IsIterable(arg) THEN PyList(<<arg>>)
    ELSE PyList(ItemsOf(arg))

(***************************************************************************)
(* unique(args..., separable): remove repeated items, keeping the order.   *)
(* positional is the tuple of positional arguments.                        *)
(***************************************************************************)
\* The loop comparing an item with the last one kept only.
RECURSIVE Collect_Adjacent(_, _)
Collect_Adjacent(items, collection) ==
    IF items = <<>> THEN collection
    ELSE Collect_Adjacent(Tail(items),
            IF collection # <<>> /\ collection[Len(collection)] = Head(items)
            THEN collection
            ELSE Append(collection, Head(items)))

RECURSIVE Collect(_, _)
Collect(items, collection) ==
    IF items = <<>> THEN collection
    ELSE Collect(Tail(items),
                 IF Contains(collection, Head(items)) THEN collection
                 ELSE Append(collection, Head(items)))

\* The choice of items without its test of separable.
UniqueItems_IgnoresSeparable(positional, separable) ==
    IF Len(positional) = 1 THEN positional[1]
    ELSE PyTuple(positional)

UniqueItems(positional, separable) ==
    IF separable /\ Len(positional) = 1 THEN positional[1]
    ELSE PyTuple(positional)

unique(positional, separable) ==
    LET items == UniqueItems(positional, separable)
    IN  IF ~IsIterable(items) THEN Raises("SeparableTypeError")
        ELSE Returns(PyList(Collect(ItemsOf(items), <<>>)))

(***************************************************************************)
(* unwrap(obj, newtype): remove redundant outer lists and tuples.          *)
(* newtype is "None", "list" or "tuple".                                   *)
(***************************************************************************)
\* The loop with wrapped = (list,): a tuple is not stripped.
RECURSIVE Strip_ListOnly(_)
Strip_ListOnly(seed) ==
    IF seed.kind = "list" /\ Len(seed.val) = 1
    THEN Strip_ListOnly(seed.val[1])
    ELSE seed

RECURSIVE Strip(_)
Strip(seed) ==
    IF seed.kind \in {"list", "tuple"} /\ Len(seed.val) = 1
    THEN Strip(seed.val[1])
    ELSE seed

NewType(newtype, lst) == [kind |-> newtype, val |-> lst.val]

\* unwrap storing obj, not the stripped seed, in newtype.
unwrap_WrapsObj(obj, newtype) ==
    LET seed == Strip(PyList(<<obj>>))
    IN  IF newtype # "None" THEN NewType(newtype, wrap(obj))
        ELSE seed

unwrap(obj, newtype) ==
    LET seed == Strip(PyList(<<obj>>))
    IN  IF newtype # "None" THEN NewType(newtype, wrap(seed))
        ELSE seed

(***************************************************************************)
(* isseparable(x): x is iterable but is not string-like.                   *)
(***************************************************************************)
isseparable(x) ==
    IF ~IsIterable(x) THEN FALSE
    ELSE x.kind \notin {"str", "bytes"}

(***************************************************************************)
(* Wrapper(this): a collection of independent members.                     *)
(***************************************************************************)
Wrapper(this) ==
    [kind |-> "Wrapper", arg |-> this, wrapped |-> PyTuple(wrap(this).val)]

WrapperIter(self) == self.wrapped.val
WrapperLen(self) == Len(self.wrapped.val)
WrapperContains(self, x) == Contains(self.wrapped.val, x)

(***************************************************************************)
(* merge(these, those): the order-preserving merge, spec.md 4.1 to 4.5.    *)
(***************************************************************************)
\* 4.2, step 1: the distinct values appearing in both A and B.
CommonValues(A, B) ==
    {A[i] : i \in 1..Len(A)} \cap {B[j] : j \in 1..Len(B)}

\* 4.2, steps 2 and 3: the subsequence of S of the values in common.
RECURSIVE Restrict(_, _)
Restrict(S, common) ==
    IF S = <<>> THEN <<>>
    ELSE IF Head(S) \in common THEN <<Head(S)>> \o Restrict(Tail(S), common)
    ELSE Restrict(Tail(S), common)

\* 4.3: the positions of the anchors in S.  Where the value of an anchor
\* occurs once in S its position is that occurrence; where it occurs more
\* than once, which occurrence anchors the partition is left open (3, 9),
\* and every occurrence is a possible choice.
RECURSIVE AnchorPositions(_, _)
AnchorPositions(S, anchors) ==
    IF anchors = <<>> THEN {<<>>}
    ELSE {<<p>> \o rest :
            p \in {i \in 1..Len(S) : S[i] = Head(anchors)},
            rest \in AnchorPositions(S, Tail(anchors))}

\* 4.3: the k+1 segments of S, for anchors at positions pos[1..k].
Segments(S, pos) ==
    LET k == Len(pos)
    IN  [i \in 0..k |->
            IF k = 0 THEN S
            ELSE IF i = 0 THEN SubSeq(S, 1, pos[1] - 1)
            ELSE IF i < k THEN SubSeq(S, pos[i] + 1, pos[i + 1] - 1)
            ELSE SubSeq(S, pos[k] + 1, Len(S))]

\* 4.4: S0 T0 [a1] S1 T1 [a2] ... [ak] Sk Tk, built from boundary i on.
RECURSIVE Combine(_, _, _, _)
Combine(segS, segT, anchors, i) ==
    LET pair == segS[i] \o segT[i]
    IN  IF i = Len(anchors) THEN pair
        ELSE pair \o <<anchors[i + 1]>> \o Combine(segS, segT, anchors, i + 1)

\* 4.5: the outcomes of merge(these, those).
merge(these, those) ==
    LET A == wrap(these).val
        B == wrap(those).val
        common == CommonValues(A, B)
        anchorsFromA == Restrict(A, common)
        anchorsFromB == Restrict(B, common)
    IN  IF anchorsFromA # anchorsFromB THEN {Raises("MergeError")}
        ELSE {Returns(PyList(Combine(Segments(A, pa), Segments(B, pb),
                                     anchorsFromA, 0))) :
                pa \in AnchorPositions(A, anchorsFromA),
                pb \in AnchorPositions(B, anchorsFromA)}

(***************************************************************************)
(* The caller.                                                             *)
(***************************************************************************)
PyBool(b) == [kind |-> "bool", val |-> <<b>>]

MergeArgs ==
    {PyList(s) : s \in SeqsUpTo(Elems, MaxLen)} \cup Strs
        \cup {None, PyInt(1), PyTuple(<<PyInt(1), PyInt(2)>>)}

UniqueArgs ==
    SeqsUpTo(Elems \cup {PyTuple(<<PyInt(1), PyInt(1)>>)}, MaxLen)
        \cup {<<v>> : v \in Values}

NewTypes == {"None", "list", "tuple"}

Init ==
    /\ op = "idle"
    /\ args = <<>>
    /\ kw = ""
    /\ ret = Returns(None)

CallUnique ==
    /\ op = "idle"
    /\ \E positional \in UniqueArgs, separable \in BOOLEAN :
        /\ op' = "unique"
        /\ args' = positional
        /\ kw' = IF separable THEN "separable=True" ELSE "separable=False"
        /\ ret' = unique(positional, separable)

CallUnwrap ==
    /\ op = "idle"
    /\ \E obj \in Values, newtype \in NewTypes :
        /\ op' = "unwrap"
        /\ args' = <<obj>>
        /\ kw' = newtype
        /\ ret' = Returns(unwrap(obj, newtype))

CallWrap ==
    /\ op = "idle"
    /\ \E arg \in Values :
        /\ op' = "wrap"
        /\ args' = <<arg>>
        /\ kw' = ""
        /\ ret' = Returns(wrap(arg))

CallWrapper ==
    /\ op = "idle"
    /\ \E this \in Values :
        /\ op' = "Wrapper"
        /\ args' = <<this>>
        /\ kw' = ""
        /\ ret' = Returns(Wrapper(this))

CallIsSeparable ==
    /\ op = "idle"
    /\ \E x \in Values :
        /\ op' = "isseparable"
        /\ args' = <<x>>
        /\ kw' = ""
        /\ ret' = Returns(PyBool(isseparable(x)))

CallMerge ==
    /\ op = "idle"
    /\ \E these \in MergeArgs, those \in MergeArgs :
        \E outcome \in merge(these, those) :
            /\ op' = "merge"
            /\ args' = <<these, those>>
            /\ kw' = ""
            /\ ret' = outcome

Return ==
    /\ op # "idle"
    /\ op' = "idle"
    /\ args' = <<>>
    /\ kw' = ""
    /\ ret' = Returns(None)

Next ==
    \/ CallUnique
    \/ CallUnwrap
    \/ CallWrap
    \/ CallWrapper
    \/ CallIsSeparable
    \/ CallMerge
    \/ Return

Spec == Init /\ [][Next]_vars

(***************************************************************************)
(* Vocabulary of the properties.                                           *)
(***************************************************************************)
Range(s) == {s[i] : i \in 1..Len(s)}

NoRepeats(s) == \A i, j \in 1..Len(s) : s[i] = s[j] => i = j

Count(s, x) == Cardinality({i \in 1..Len(s) : s[i] = x})

\* s is a subsequence of r (the elements of s, in order, among those of r).
RECURSIVE IsSubseq(_, _)
IsSubseq(s, r) ==
    IF s = <<>> THEN TRUE
    ELSE IF r = <<>> THEN FALSE
    ELSE IF Head(s) = Head(r) THEN IsSubseq(Tail(s), Tail(r))
    ELSE IsSubseq(s, Tail(r))

\* The elements of s at the indices in idx, in order.
RECURSIVE AtIndices(_, _, _)
AtIndices(s, idx, i) ==
    IF i > Len(s) THEN <<>>
    ELSE (IF i \in idx THEN <<s[i]>> ELSE <<>>) \o AtIndices(s, idx, i + 1)

\* The first occurrence of each value of s, in order.
FirstOccurrences(s) ==
    AtIndices(s, {i \in 1..Len(s) : \A j \in 1..(i - 1) : s[j] # s[i]}, 1)

IsSingleton(x) == x.kind \in {"list", "tuple"} /\ Len(x.val) = 1

StringLike(x) == x.kind \in {"str", "bytes"}

\* obj and the values reached from it by taking the sole element of a
\* one-element list or tuple.
RECURSIVE Peelings(_)
Peelings(obj) ==
    IF IsSingleton(obj) THEN {obj} \cup Peelings(obj.val[1]) ELSE {obj}

(***************************************************************************)
(* wrap                                                                    *)
(***************************************************************************)
\* C5: wrap returns a list and never raises: [] for None, [arg] for a
\* string-like arg (str or bytes, never split), the elements in order for
\* any other iterable, [arg] for any other value.
C5_WrapContract ==
    op = "wrap" =>
        LET arg == args[1]
        IN  /\ ret.raised = ""
            /\ ret.value.kind = "list"
            /\ ret.value.val =
                 IF arg = None THEN <<>>
                 ELSE IF StringLike(arg) THEN <<arg>>
                 ELSE IF IsIterable(arg) THEN arg.val
                 ELSE <<arg>>

(***************************************************************************)
(* unique                                                                  *)
(***************************************************************************)
\* The item list of a call of unique, as C6 and C7 name it.
ItemList ==
    IF kw = "separable=True" /\ Len(args) = 1 THEN ItemsOf(args[1]) ELSE args

\* C6: what unique returns has no two equal elements, holds exactly the
\* distinct values of the item list, and is the subsequence of the item
\* list made of each value's first occurrence.
C6_UniqueFirstOccurrences ==
    (op = "unique" /\ ret.raised = "") =>
        /\ ret.value.kind = "list"
        /\ NoRepeats(ret.value.val)
        /\ Range(ret.value.val) = Range(ItemList)
        /\ ret.value.val = FirstOccurrences(ItemList)

C6_Witness ==
    /\ op = "unique"
    /\ args = <<PyInt(1), PyInt(2), PyInt(1)>>
    /\ kw = "separable=False"
    /\ ret = Returns(PyList(<<PyInt(1), PyInt(2)>>))

\* C7: unique raises SeparableTypeError exactly when separable is true,
\* one positional argument is given and it is not iterable; otherwise the
\* positional arguments are the items, and a single argument with
\* separable false comes back as [arg].
C7_UniqueRaises ==
    op = "unique" =>
        /\ ret.raised \in {"", "SeparableTypeError"}
        /\ (ret.raised = "SeparableTypeError") <=>
             (kw = "separable=True" /\ Len(args) = 1 /\ ~IsIterable(args[1]))
        /\ (kw = "separable=False" \/ Len(args) # 1) =>
             (ret.raised = "" /\ Range(ret.value.val) = Range(args))
        /\ (kw = "separable=False" /\ Len(args) = 1) =>
             ret.value = PyList(<<args[1]>>)

C7_Witness ==
    /\ op = "unique"
    /\ args = <<PyInt(1)>>
    /\ kw = "separable=True"
    /\ ret.raised = "SeparableTypeError"

(***************************************************************************)
(* unwrap                                                                  *)
(***************************************************************************)
\* C8: unwrap(obj) without newtype never returns a one-element list or
\* tuple, returns obj itself when obj is not one, and returns v for any
\* nesting of one-element lists and tuples around a v that is not one.
C8_UnwrapStrips ==
    (op = "unwrap" /\ kw = "None") =>
        /\ ret.raised = ""
        /\ ~IsSingleton(ret.value)
        /\ ~IsSingleton(args[1]) => ret.value = args[1]
        /\ \A v \in Peelings(args[1]) : ~IsSingleton(v) => ret.value = v

C8_Witness ==
    /\ op = "unwrap"
    /\ kw = "None"
    /\ args = <<PyList(<<PyTuple(<<PyInt(3)>>)>>)>>
    /\ ret = Returns(PyInt(3))

\* C9 as stated: unwrap(obj, newtype=C) returns a container of kind C; it
\* holds the elements of c when obj nests a list or tuple c of zero or two
\* or more elements, and holds v alone when obj nests a non-iterable v.
C9_UnwrapNewtype ==
    (op = "unwrap" /\ kw # "None") =>
        /\ ret.raised = ""
        /\ ret.value.kind = kw
        /\ \A c \in Peelings(args[1]) :
            /\ (c.kind \in {"list", "tuple"} /\ ~IsSingleton(c)) =>
                 ret.value.val = c.val
            /\ ~IsIterable(c) => ret.value.val = <<c>>

\* C9 amended: as C9, with None apart from the other non-iterable values:
\* around None the result is the empty container.
C9_UnwrapNewtypeAmended ==
    (op = "unwrap" /\ kw # "None") =>
        /\ ret.raised = ""
        /\ ret.value.kind = kw
        /\ \A c \in Peelings(args[1]) :
            /\ (c.kind \in {"list", "tuple"} /\ ~IsSingleton(c)) =>
                 ret.value.val = c.val
            /\ (~IsIterable(c) /\ c # None) => ret.value.val = <<c>>
            /\ c = None => ret.value.val = <<>>

C9_Witness ==
    /\ op = "unwrap"
    /\ kw = "tuple"
    /\ args = <<PyList(<<PyList(<<PyInt(1), PyInt(2)>>)>>)>>
    /\ ret = Returns(PyTuple(<<PyInt(1), PyInt(2)>>))

(***************************************************************************)
(* Wrapper                                                                 *)
(***************************************************************************)
\* C10: Wrapper(x) behaves like the tuple (x,) when isseparable(x) is
\* false and like tuple(x) when it is true: same length, same elements in
\* the same order, same membership.
C10_WrapperAgrees ==
    op = "Wrapper" =>
        LET x == args[1]
            self == ret.value
            like == IF isseparable(x) THEN ItemsOf(x) ELSE <<x>>
        IN  /\ WrapperLen(self) = Len(like)
            /\ WrapperIter(self) = like
            /\ \A y \in Range(like) \cup {x} :
                 WrapperContains(self, y) <=> y \in Range(like)

(***************************************************************************)
(* merge                                                                   *)
(***************************************************************************)
\* The sequence an argument of merge stands for: nothing for None, the
\* items of a list or tuple, the value itself for a str or a number.
AsSequence(x) ==
    IF x = None THEN <<>>
    ELSE IF x.kind \in {"list", "tuple"} THEN x.val
    ELSE <<x>>

These == AsSequence(args[1])
Those == AsSequence(args[2])
Shared == Range(These) \cap Range(Those)

\* S without its elements that are not shared.
OnlyShared(S) ==
    AtIndices(S, {i \in 1..Len(S) : S[i] \in Shared}, 1)

\* No value common to both inputs repeats within either input.
NoSharedRepeats ==
    \A c \in Shared : Count(These, c) = 1 /\ Count(Those, c) = 1

\* The run of elements of S that are not shared and have exactly i shared
\* elements before them.
GapRun(S, i) ==
    AtIndices(S, {j \in 1..Len(S) :
                    /\ S[j] \notin Shared
                    /\ Cardinality({h \in 1..(j - 1) : S[h] \in Shared}) = i}, 1)

\* S0 T0 [a1] S1 T1 ... [ak] Sk Tk up to gap i.
RECURSIVE Interleaved(_)
Interleaved(i) ==
    IF i = 0 THEN GapRun(These, 0) \o GapRun(Those, 0)
    ELSE Interleaved(i - 1) \o <<OnlyShared(These)[i]>>
            \o GapRun(These, i) \o GapRun(Those, i)

\* C1: where merge succeeds and no shared value repeats within an input,
\* the result is S0 T0 [a1] S1 T1 [a2] ... [ak] Sk Tk, the left run before
\* the right run at every gap; with nothing shared it is these then those.
C1_MergeInterleaves ==
    (op = "merge" /\ ret.raised = "" /\ NoSharedRepeats) =>
        /\ ret.value = PyList(Interleaved(Len(OnlyShared(These))))
        /\ Shared = {} => ret.value = PyList(These \o Those)

C1_Witness ==
    /\ op = "merge"
    /\ args = <<PyList(<<PyInt(3), PyInt(1), PyInt(2)>>),
                PyList(<<PyInt(1), PyStr(<<"a">>), PyInt(2)>>)>>
    /\ ret = Returns(PyList(<<PyInt(3), PyInt(1), PyStr(<<"a">>), PyInt(2)>>))

\* C2: merge raises MergeError exactly when these restricted to the shared
\* values differs from those restricted to them; it then returns nothing,
\* and in every other case it returns a list without error.
C2_MergeConflict ==
    op = "merge" =>
        /\ (ret.raised = "MergeError") <=> (OnlyShared(These) # OnlyShared(Those))
        /\ ret.raised = "MergeError" => ret.value = None
        /\ ret.raised # "MergeError" => (ret.raised = "" /\ ret.value.kind = "list")

C2_Witness ==
    /\ op = "merge"
    /\ args = <<PyList(<<PyInt(1), PyInt(2), PyInt(3)>>),
                PyList(<<PyInt(1), PyInt(3), PyInt(2)>>)>>
    /\ ret = Raises("MergeError")

\* C3: where merge succeeds and no shared value repeats within an input,
\* these and those are subsequences of the result, every shared value
\* occurs once in it, and its length is the two lengths less the number of
\* shared values.
C3_MergePreservesOrder ==
    (op = "merge" /\ ret.raised = "" /\ NoSharedRepeats) =>
        /\ IsSubseq(These, ret.value.val)
        /\ IsSubseq(Those, ret.value.val)
        /\ \A c \in Shared : Count(ret.value.val, c) = 1
        /\ Len(ret.value.val) = Len(These) + Len(Those) - Cardinality(Shared)

C3_Witness ==
    /\ op = "merge"
    /\ args = <<PyList(<<PyInt(1), PyInt(2)>>),
                PyList(<<PyInt(3), PyInt(2), PyStr(<<"a">>)>>)>>
    /\ ret = Returns(PyList(<<PyInt(1), PyInt(3), PyInt(2), PyStr(<<"a">>)>>))

====
